---- MODULE Spec2Model ----
(***************************************************************************)
(* LibrarySourcedBlockPicker.jsx: the React picker component               *)
(* (LibrarySourcedBlockPicker) and the author-view save handler            *)
(* (window.LibrarySourceBlockAuthorView).                                  *)
(*                                                                         *)
(* The browser is single threaded: every handler below is one atomic       *)
(* action.  Asynchrony is the set of fetches in flight, the two debounce   *)
(* timers and the POSTs in flight.                                         *)
(***************************************************************************)
EXTENDS Integers, Sequences, FiniteSets, TLC

\* ------------------------------------------------------------------ bounds

\* User events (typing, choosing, ticking, removing, saving, leaving) in one
\* behaviour.
MaxEvents == 3
\* The clock's step in milliseconds: timers are observed every TickMs.
TickMs == 150

\* The debounce wait passed to _.debounce, in milliseconds.
W == 300

\* ------------------------------------------------------------------ values

Undefined == "undefined"

LibraryIds == {"L1", "L2"}

BlockIds == {"b1", "b2", "b3"}

\* What a search box can hold ("" is the empty box).
Texts == {"", "a"}

\* A parsed JSON body is an array of entity ids or some other JSON object.
JsonArray(ids) == [type |-> "array", items |-> ids]

JsonObject == [type |-> "object", items |-> <<>>]

\* this.state.libraries.map / this.state.xblocks.map: the ids that get a row.
Rows(json) == IF json.type = "array" THEN json.items ELSE <<>>

Range(s) == {s[i] : i \in 1..Len(s)}

\* The props tried: the defaultProps, and the editor of an existing
\* configuration handed a list that repeats an id.
PropsTried ==
  {[saveUrl |-> "", selectedXblocks |-> <<>>],
   [saveUrl |-> "/xblock/submit_studio_edits", selectedXblocks |-> <<"b2", "b1", "b2">>]}

\* ------------------------------------------------ the JavaScript Set object

\* A Set is kept as the sequence of its members in insertion order.

SetHas(set, value) == value \in Range(set)

SetAddAlways(set, value) == Append(set, value)

\* Set.prototype.add: appends the value unless it is already a member.
SetAdd(set, value) == IF SetHas(set, value) THEN set ELSE Append(set, value)

SetDeleteFirst(set, value) == IF set = <<>> THEN set ELSE Tail(set)

\* Set.prototype.delete: removes the value, the other members keep their order.
SetDelete(set, value) == SelectSeq(set, LAMBDA m : m # value)

\* new Set(iterable): adds the elements one by one.
RECURSIVE NewSetFrom(_, _)
NewSetFrom(set, array) ==
  IF array = <<>> THEN set ELSE NewSetFrom(SetAdd(set, Head(array)), Tail(array))

NewSet(array) == NewSetFrom(<<>>, array)

\* Array.from(set): the members in insertion order.
ArrayFrom(set) == set

\* ------------------------------------------------------------------- state

VARIABLES
  props,                   \* this.props: saveUrl, selectedXblocks
  state,                   \* this.state
  mounted,                 \* the component instance is still in the page
  inputs,                  \* the two <input> DOM elements' current value
  debouncedFetchLibraries, \* this.debouncedFetchLibraries and its timer
  debouncedFetchXblocks,   \* this.debouncedFetchXblocks and its timer
  issued,                  \* every fetch() call made so far, in order
  fetches,                 \* indices into issued of the fetches in flight
  applied,                 \* per list, the fetch whose body setState last stored (0: none)
  completed,               \* per target, the query that last completed successfully (0: none)
  typed,                   \* per field, its text-change events: last text, bursts, length of the last burst
  expected,                \* the ids added and not since removed
  events,                  \* user events so far
  saveEvents,              \* the 'save' events triggered, in order
  notifications,           \* runtime.notify calls, in order
  posts                    \* $.ajax POSTs in flight

vars == <<props, state, mounted, inputs, debouncedFetchLibraries,
          debouncedFetchXblocks, issued, fetches, applied, completed, typed,
          expected, events, saveEvents, notifications, posts>>

\* ------------------------------------------------------- the catalog service

\* GET /api/libraries/v2?text_search=<q>: the libraries the service holds.
LibrariesMatching(text) ==
  IF text = "" THEN <<"L1", "L2">> ELSE <<"L1">>

\* GET /api/libraries/v2/<library_id>/blocks?text_search=<q>: each block
\* belongs to one library.
BlocksMatching(library, text) ==
  CASE library = "L1" /\ text = "" -> <<"b1", "b2">>
    [] library = "L1"              -> <<"b1">>
    [] library = "L2" /\ text = "" -> <<"b3">>
    [] OTHER                       -> <<>>

\* The libraries request, had the search text been left out of the URL.
LibrariesRequestUnfiltered(text_search, origin) ==
  [api |-> "libraries", library |-> "", text_search |-> "", origin |-> origin]

\* A request as fetch() receives it; origin is the call site.
LibrariesRequest(text_search, origin) ==
  [api |-> "libraries", library |-> "", text_search |-> text_search, origin |-> origin]

BlocksRequest(library, text_search, origin) ==
  [api |-> "blocks", library |-> library, text_search |-> text_search, origin |-> origin]

\* A fetch() call as the history keeps it: the request, and the library that
\* was selected when the call was scheduled (for a debounced block search, at
\* the text-change event that armed its timer last; for a direct call, the
\* library the call is for).
Call(req, scheduled) ==
  [api |-> req.api, library |-> req.library, text_search |-> req.text_search,
   origin |-> req.origin, scheduled |-> scheduled]

\* What a request asks for: the libraries list, or one library's blocks.
Target(req) == IF req.api = "libraries" THEN "libraries" ELSE req.library

Targets == {"libraries", Undefined} \cup LibraryIds

\* What fetch() can settle with.  rejected: the promise rejects (network
\* error).  Otherwise a Response: ok is its HTTP status being 2xx, json is
\* whether its body parses, parsed is the parsed body.
NetworkError == [rejected |-> TRUE, ok |-> FALSE, json |-> FALSE, parsed |-> JsonObject]

Response(ok, json, parsed) == [rejected |-> FALSE, ok |-> ok, json |-> json, parsed |-> parsed]

CatalogBody(req) ==
  IF req.api = "libraries"
  THEN JsonArray(LibrariesMatching(req.text_search))
  ELSE JsonArray(BlocksMatching(req.library, req.text_search))

\* The service answers a well-formed request with the matching array or fails;
\* a blocks request for the library "undefined" names no library.
Responses(req) ==
  {NetworkError, Response(FALSE, FALSE, JsonObject), Response(FALSE, TRUE, JsonObject),
   Response(TRUE, FALSE, JsonObject)}
  \cup (IF req.api = "blocks" /\ req.library = Undefined THEN {}
        ELSE {Response(TRUE, TRUE, CatalogBody(req))})

\* A query failed: network error, HTTP error status, or unparseable body.
Failed(response) == response.rejected \/ ~response.ok \/ ~response.json

\* ------------------------------------------------------------ the debouncers

NoEvent == [target |-> "none", value |-> ""]

\* A change event: target is the <input> element, value its text at that time.
ChangeEvent(target, text) == [target |-> target, value |-> text]

\* this.debouncedX is undefined until the first change event creates it around
\* that event; remaining is the armed timer's time to run, -1 when none is armed.
NotCreated == [created |-> FALSE, event |-> NoEvent, remaining |-> -1]

EventValueAtDispatch(event) == event.value

\* event.target.value: the element's text when the expression is evaluated.
EventTargetValue(event) == inputs[event.target]

\* if (!this.debouncedX) this.debouncedX = _.debounce(() => ..., 300);
\* this.debouncedX();
Debounce(debounced, event) ==
  IF debounced.created
  THEN [debounced EXCEPT !.remaining = W]
  ELSE [created |-> TRUE, event |-> event, remaining |-> W]

Pending(debounced) == debounced.remaining >= 0

Due(debounced) == debounced.remaining = 0

Elapse(debounced) ==
  IF debounced.remaining > TickMs THEN [debounced EXCEPT !.remaining = @ - TickMs]
  ELSE IF debounced.remaining >= 0 THEN [debounced EXCEPT !.remaining = 0]
  ELSE debounced

\* A text-change event on a field whose timer is debounced: it continues the
\* burst when it comes less than W after the previous one, else starts a burst.
Typed(record, debounced, text, library) ==
  IF Pending(debounced) /\ ~Due(debounced)
  THEN [last |-> text, bursts |-> record.bursts, run |-> record.run + 1,
        library |-> library]
  ELSE [last |-> text, bursts |-> record.bursts + 1, run |-> 1, library |-> library]

\* -------------------------------------------------------------------- Init

\* The constructor: the initial state and the unfiltered libraries query.
Init ==
  /\ props \in PropsTried
  /\ state = [libraries |-> JsonArray(<<>>),
              xblocks |-> JsonArray(<<>>),
              searchedLibrary |-> "",
              searchedXblock |-> "",
              selectedLibrary |-> Undefined,
              selectedXblocks |-> NewSet(props.selectedXblocks)]
  /\ mounted = TRUE
  /\ inputs = [libraryInput |-> "", xblockInput |-> ""]
  /\ debouncedFetchLibraries = NotCreated
  /\ debouncedFetchXblocks = NotCreated
  /\ issued = <<Call(LibrariesRequest("", "constructor"), "")>>
  /\ fetches = {1}
  /\ applied = [libraries |-> 0, xblocks |-> 0]
  /\ completed = [target \in Targets |-> 0]
  /\ typed = [libraryInput |-> [last |-> "", bursts |-> 0, run |-> 0, library |-> ""],
              xblockInput |-> [last |-> "", bursts |-> 0, run |-> 0, library |-> Undefined]]
  /\ expected = Range(props.selectedXblocks)
  /\ events = 0
  /\ saveEvents = <<>>
  /\ notifications = <<>>
  /\ posts = {}

\* ----------------------------------------------------------------- helpers

\* fetch(url): one more request in flight.
FetchScheduled(req, scheduled) ==
  /\ issued' = Append(issued, Call(req, scheduled))
  /\ fetches' = fetches \cup {Len(issued) + 1}

Fetch(req) == FetchScheduled(req, req.library)

\* this.setState({field: value}); React drops an update to an unmounted
\* component.
SetState(field, value) ==
  state' = IF mounted THEN [state EXCEPT ![field] = value] ELSE state

\* The library text-change handler, had the two fields shared one timer: the
\* event restarts the pending block search too.
OnLibraryInputChangeSharedTimer(text) ==
  /\ mounted
  /\ text # inputs.libraryInput
  /\ events < MaxEvents
  /\ events' = events + 1
  /\ inputs' = [inputs EXCEPT !.libraryInput = text]
  /\ typed' = [typed EXCEPT !.libraryInput = Typed(@, debouncedFetchLibraries, text, "")]
  /\ SetState("searchedLibrary", text)
  /\ debouncedFetchLibraries' =
       Debounce(debouncedFetchLibraries, ChangeEvent("libraryInput", text))
  /\ debouncedFetchXblocks' =
       IF Pending(debouncedFetchXblocks)
       THEN [debouncedFetchXblocks EXCEPT !.remaining = W]
       ELSE debouncedFetchXblocks
  /\ UNCHANGED <<props, mounted, issued, fetches, applied, completed,
                 expected, saveEvents, notifications, posts>>

\* -------------------------------------------------------- the search fields

OnLibraryInputChange(text) ==
  /\ mounted
  /\ text # inputs.libraryInput
  /\ events < MaxEvents
  /\ events' = events + 1
  /\ inputs' = [inputs EXCEPT !.libraryInput = text]
  /\ typed' = [typed EXCEPT !.libraryInput = Typed(@, debouncedFetchLibraries, text, "")]
  /\ SetState("searchedLibrary", text)
  /\ debouncedFetchLibraries' =
       Debounce(debouncedFetchLibraries, ChangeEvent("libraryInput", text))
  /\ UNCHANGED <<props, mounted, debouncedFetchXblocks, issued, fetches, applied, completed,
                 expected, saveEvents, notifications, posts>>

OnXBlockInputChange(text) ==
  /\ mounted
  /\ text # inputs.xblockInput
  /\ events < MaxEvents
  /\ events' = events + 1
  /\ inputs' = [inputs EXCEPT !.xblockInput = text]
  /\ typed' = [typed EXCEPT !.xblockInput = Typed(@, debouncedFetchXblocks, text, state.selectedLibrary)]
  /\ SetState("searchedXblock", text)
  /\ debouncedFetchXblocks' =
       Debounce(debouncedFetchXblocks, ChangeEvent("xblockInput", text))
  /\ UNCHANGED <<props, mounted, debouncedFetchLibraries, issued, fetches, applied, completed,
                 expected, saveEvents, notifications, posts>>

\* The timer of debouncedFetchLibraries runs out: the closure runs.
DebouncedFetchLibraries ==
  /\ Due(debouncedFetchLibraries)
  /\ Fetch(LibrariesRequest(EventTargetValue(debouncedFetchLibraries.event),
                            "debouncedFetchLibraries"))
  /\ debouncedFetchLibraries' = [debouncedFetchLibraries EXCEPT !.remaining = -1]
  /\ UNCHANGED <<props, state, mounted, inputs, debouncedFetchXblocks, applied, completed, typed,
                 expected, events, saveEvents, notifications, posts>>

\* The debounced block search, had the closure captured the selected library
\* with the event.
DebouncedFetchXblocksAtSchedule ==
  /\ Due(debouncedFetchXblocks)
  /\ FetchScheduled(BlocksRequest(typed.xblockInput.library,
                                  EventTargetValue(debouncedFetchXblocks.event),
                                  "debouncedFetchXblocks"),
                    typed.xblockInput.library)
  /\ debouncedFetchXblocks' = [debouncedFetchXblocks EXCEPT !.remaining = -1]
  /\ UNCHANGED <<props, state, mounted, inputs, debouncedFetchLibraries, applied, completed, typed,
                 expected, events, saveEvents, notifications, posts>>

\* The timer of debouncedFetchXblocks runs out: the closure runs.
DebouncedFetchXblocks ==
  /\ Due(debouncedFetchXblocks)
  /\ FetchScheduled(BlocksRequest(state.selectedLibrary,
                                  EventTargetValue(debouncedFetchXblocks.event),
                                  "debouncedFetchXblocks"),
                    typed.xblockInput.library)
  /\ debouncedFetchXblocks' = [debouncedFetchXblocks EXCEPT !.remaining = -1]
  /\ UNCHANGED <<props, state, mounted, inputs, debouncedFetchLibraries, applied, completed, typed,
                 expected, events, saveEvents, notifications, posts>>

\* Time passes: TickMs milliseconds, with no timer overdue.
Tick ==
  /\ Pending(debouncedFetchLibraries) \/ Pending(debouncedFetchXblocks)
  /\ ~Due(debouncedFetchLibraries)
  /\ ~Due(debouncedFetchXblocks)
  /\ debouncedFetchLibraries' = Elapse(debouncedFetchLibraries)
  /\ debouncedFetchXblocks' = Elapse(debouncedFetchXblocks)
  /\ UNCHANGED <<props, state, mounted, inputs, issued, fetches, applied, completed, typed,
                 expected, events, saveEvents, notifications, posts>>

\* ------------------------------------------------------- fetch continuations

\* A fetch settling, had responses been tagged with the library selected when
\* the search was scheduled and discarded when another one was selected since.
FetchSettlesTagged(id, response) ==
  /\ id \in fetches
  /\ response \in Responses(issued[id])
  /\ fetches' = fetches \ {id}
  /\ LET field == IF issued[id].api = "libraries" THEN "libraries" ELSE "xblocks"
         stored == /\ ~response.rejected
                   /\ response.json
                   /\ issued[id].scheduled = issued[id].library
     IN /\ IF stored THEN SetState(field, response.parsed) ELSE state' = state
        /\ applied' = IF stored /\ mounted THEN [applied EXCEPT ![field] = id] ELSE applied
        /\ completed' = IF Failed(response) THEN completed
                        ELSE [completed EXCEPT ![Target(issued[id])] = id]
  /\ UNCHANGED <<props, mounted, inputs, debouncedFetchLibraries, debouncedFetchXblocks,
                 issued, typed, expected, events, saveEvents, notifications, posts>>

\* .then(res => res.json()).then((response) => this.setState({...: response}))
\* There is no .catch and no look at res.ok: a rejection, of fetch or of
\* res.json(), ends the chain; any parsed body is stored.
FetchSettles(id, response) ==
  /\ id \in fetches
  /\ response \in Responses(issued[id])
  /\ fetches' = fetches \ {id}
  /\ LET field == IF issued[id].api = "libraries" THEN "libraries" ELSE "xblocks"
         stored == ~response.rejected /\ response.json
     IN /\ IF stored THEN SetState(field, response.parsed) ELSE state' = state
        /\ applied' = IF stored /\ mounted THEN [applied EXCEPT ![field] = id] ELSE applied
        /\ completed' = IF Failed(response) THEN completed
                        ELSE [completed EXCEPT ![Target(issued[id])] = id]
  /\ UNCHANGED <<props, mounted, inputs, debouncedFetchLibraries, debouncedFetchXblocks,
                 issued, typed, expected, events, saveEvents, notifications, posts>>

\* ------------------------------------------------------------ the library

\* The library-selected handler, had it reset the selection with the blocks.
OnLibrarySelectedClearsSelection(library) ==
  /\ mounted
  /\ library \in Range(Rows(state.libraries))
  /\ events < MaxEvents
  /\ events' = events + 1
  /\ state' = [state EXCEPT !.selectedLibrary = library, !.selectedXblocks = NewSet(<<>>)]
  /\ Fetch(BlocksRequest(library, "", "onLibrarySelected"))
  /\ UNCHANGED <<props, mounted, inputs, debouncedFetchLibraries, debouncedFetchXblocks,
                 applied, completed, typed, expected, saveEvents, notifications, posts>>

\* A radio of the libraries list is chosen.
OnLibrarySelected(library) ==
  /\ mounted
  /\ library \in Range(Rows(state.libraries))
  /\ events < MaxEvents
  /\ events' = events + 1
  /\ SetState("selectedLibrary", library)
  /\ Fetch(BlocksRequest(library, "", "onLibrarySelected"))
  /\ UNCHANGED <<props, mounted, inputs, debouncedFetchLibraries, debouncedFetchXblocks,
                 applied, completed, typed, expected, saveEvents, notifications, posts>>

\* ----------------------------------------------------------- the selection

\* A checkbox of the blocks list changes; checked is its new state.
OnXblockSelected(value, checked) ==
  /\ mounted
  /\ value \in Range(Rows(state.xblocks))
  /\ events < MaxEvents
  /\ events' = events + 1
  /\ SetState("selectedXblocks",
              IF checked THEN SetAdd(NewSet(state.selectedXblocks), value)
              ELSE SetDelete(NewSet(state.selectedXblocks), value))
  /\ expected' = IF checked THEN expected \cup {value} ELSE expected \ {value}
  /\ UNCHANGED <<props, mounted, inputs, debouncedFetchLibraries, debouncedFetchXblocks,
                 issued, fetches, applied, completed, typed, saveEvents, notifications, posts>>

\* The x button of a row of the "Selected blocks" list.
OnDeleteClick(value) ==
  /\ mounted
  /\ value \in Range(ArrayFrom(state.selectedXblocks))
  /\ events < MaxEvents
  /\ events' = events + 1
  /\ SetState("selectedXblocks", SetDelete(NewSet(state.selectedXblocks), value))
  /\ expected' = expected \ {value}
  /\ UNCHANGED <<props, mounted, inputs, debouncedFetchLibraries, debouncedFetchXblocks,
                 issued, fetches, applied, completed, typed, saveEvents, notifications, posts>>

\* -------------------------------------------------------------------- save

\* runtime.notify('save', {state: ...})
SaveNotification(st) ==
  [type |-> "save", state |-> st, message |-> [type |-> "undefined", pieces |-> <<>>]]

SaveParamsFromProps == [save_url |-> props.saveUrl,
                        source_block_ids |-> props.selectedXblocks]

\* The params object onSaveClick passes to trigger('save', ...).
SaveParams == [save_url |-> props.saveUrl,
               source_block_ids |-> ArrayFrom(state.selectedXblocks)]

\* The Save button.  trigger() runs the author view's 'save' handler before it
\* returns: notify('save', start), then the POST.
OnSaveClick ==
  /\ mounted
  /\ events < MaxEvents
  /\ events' = events + 1
  /\ saveEvents' = Append(saveEvents, SaveParams)
  /\ notifications' = Append(notifications, SaveNotification("start"))
  /\ posts' = posts \cup {[id |-> Len(saveEvents) + 1, url |-> SaveParams.save_url,
                           source_block_ids |-> SaveParams.source_block_ids]}
  /\ UNCHANGED <<props, state, mounted, inputs, debouncedFetchLibraries,
                 debouncedFetchXblocks, issued, fetches, applied, completed, typed, expected>>

PostDoneTwice(post) ==
  /\ post \in posts
  /\ posts' = posts \ {post}
  /\ notifications' = notifications \o <<SaveNotification("end"), SaveNotification("end")>>
  /\ UNCHANGED <<props, state, mounted, inputs, debouncedFetchLibraries,
                 debouncedFetchXblocks, issued, fetches, applied, completed, typed, expected, events,
                 saveEvents>>

\* $.ajax(...).done
PostDone(post) ==
  /\ post \in posts
  /\ posts' = posts \ {post}
  /\ notifications' = Append(notifications, SaveNotification("end"))
  /\ UNCHANGED <<props, state, mounted, inputs, debouncedFetchLibraries,
                 debouncedFetchXblocks, issued, fetches, applied, completed, typed, expected, events,
                 saveEvents>>

\* A string: its text and its length in characters (a prefix of a text is the
\* text with a smaller length).
Str(text, length) == [text |-> text, length |-> length]

SubstrWhole(str, start, length) == str

\* String.prototype.substr(start, length), for start = 0.
Substr(str, start, length) ==
  IF str.length <= length THEN str ELSE Str(str.text, length)

\* gettext('This may be happening because of an error with our server ...')
StaticMessage ==
  Str("This may be happening because of an error with our server or your internet connection. Try refreshing the page or making sure you are online.", 141)

\* jqXHR.responseText values tried.
ResponseTexts ==
  {Str("", 0),
   Str("{\"error\":\"Unknown user\"}", 24),
   Str("{\"error\":{\"messages\":[{\"text\":\"Unknown user 'bob'!\",\"type\":\"error\"},{\"text\":\"Try again\",\"type\":\"error\"}]}}", 106),
   Str("{}", 2),
   Str("{\"error\":{}}", 12),
   Str("<html>Bad Gateway</html>", 24),
   Str("<html>a long error page ...", 4096)}

\* JSON.parse(text).error for the bodies above: thrown is a SyntaxError; else
\* type is the typeof of the error property, text its value when a string,
\* messages the text fields of error.messages when it has that property.
ParsedError(thrown, type, text, hasMessages, messages) ==
  [thrown |-> thrown, type |-> type, text |-> text, hasMessages |-> hasMessages,
   messages |-> messages]

JsonParseError(responseText) ==
  CASE responseText.text = "{\"error\":\"Unknown user\"}" ->
         ParsedError(FALSE, "string", Str("Unknown user", 12), FALSE, <<>>)
    [] responseText.text = "{\"error\":{\"messages\":[{\"text\":\"Unknown user 'bob'!\",\"type\":\"error\"},{\"text\":\"Try again\",\"type\":\"error\"}]}}" ->
         ParsedError(FALSE, "object", Str("", 0), TRUE,
                     <<Str("Unknown user 'bob'!", 19), Str("Try again", 9)>>)
    [] responseText.text = "{}" ->
         ParsedError(FALSE, "undefined", Str("", 0), FALSE, <<>>)
    [] responseText.text = "{\"error\":{}}" ->
         ParsedError(FALSE, "object", Str("", 0), FALSE, <<>>)
    [] OTHER ->
         ParsedError(TRUE, "undefined", Str("", 0), FALSE, <<>>)

\* Array.prototype.join(', '): the pieces of the joined string.
RECURSIVE Join(_)
Join(texts) ==
  IF Len(texts) <= 1 THEN texts
  ELSE <<texts[1], Str(", ", 2)>> \o Join(Tail(texts))

\* A JavaScript value handed to runtime.notify as message: its typeof, and for
\* a string the pieces it is concatenated from.
Value(type, pieces) == [type |-> type, pieces |-> pieces]

\* The message the fail handler computes from jqXHR.responseText.
FailMessage(responseText) ==
  IF responseText.length = 0 THEN Value("string", <<StaticMessage>>)
  ELSE LET message == JsonParseError(responseText) IN
       IF message.thrown THEN Value("string", <<Substr(responseText, 0, 300)>>)
       ELSE IF message.type = "object" /\ message.hasMessages
       THEN Value("string", Join(message.messages))
       ELSE IF message.type = "string" THEN Value("string", <<message.text>>)
       ELSE Value(message.type, <<>>)

PostFailClearsSelection(post, responseText) ==
  /\ post \in posts
  /\ posts' = posts \ {post}
  /\ notifications' = Append(notifications,
       [type |-> "error", state |-> "", message |-> FailMessage(responseText)])
  /\ state' = [state EXCEPT !.selectedXblocks = <<>>]
  /\ UNCHANGED <<props, mounted, inputs, debouncedFetchLibraries,
                 debouncedFetchXblocks, issued, fetches, applied, completed, typed, expected, events,
                 saveEvents>>

\* $.ajax(...).fail
PostFail(post, responseText) ==
  /\ post \in posts
  /\ posts' = posts \ {post}
  /\ notifications' = Append(notifications,
       [type |-> "error", state |-> "", message |-> FailMessage(responseText)])
  /\ UNCHANGED <<props, state, mounted, inputs, debouncedFetchLibraries,
                 debouncedFetchXblocks, issued, fetches, applied, completed, typed, expected, events,
                 saveEvents>>

\* --------------------------------------------------------------- lifecycle

\* React removes the component; the class has no componentWillUnmount.
Unmount ==
  /\ mounted
  /\ events < MaxEvents
  /\ events' = events + 1
  /\ mounted' = FALSE
  /\ UNCHANGED <<props, state, inputs, debouncedFetchLibraries, debouncedFetchXblocks,
                 issued, fetches, applied, completed, typed, expected, saveEvents,
                 notifications, posts>>

Next ==
  \/ \E text \in Texts : OnLibraryInputChange(text)
  \/ \E text \in Texts : OnXBlockInputChange(text)
  \/ DebouncedFetchLibraries
  \/ DebouncedFetchXblocks
  \/ Tick
  \/ \E id \in fetches : \E response \in Responses(issued[id]) : FetchSettles(id, response)
  \/ \E library \in LibraryIds : OnLibrarySelected(library)
  \/ \E value \in BlockIds : \E checked \in BOOLEAN : OnXblockSelected(value, checked)
  \/ \E value \in BlockIds : OnDeleteClick(value)
  \/ OnSaveClick
  \/ \E post \in posts : PostDone(post)
  \/ \E post \in posts : \E responseText \in ResponseTexts : PostFail(post, responseText)
  \/ Unmount

Spec == Init /\ [][Next]_vars

\* ================================================================== claims

Max(S) == CHOOSE x \in S : \A y \in S : y <= x

\* The block queries issued so far.
BlockQueries == {i \in DOMAIN issued : issued[i].api = "blocks"}

\* The queries a debounced closure has dispatched so far.
Dispatched(origin) == {i \in DOMAIN issued : issued[i].origin = origin}

NoDuplicates(array) ==
  \A i, j \in DOMAIN array : i # j => array[i] # array[j]

\* ---- C1
\* C1: once every block query issued has settled, the one issued last having
\* completed successfully, the list of blocks that state.xblocks holds is the
\* response of the block query issued last, whatever the order the responses
\* arrived in.
C1_LastIssuedWins ==
  (/\ mounted
   /\ state.xblocks.type = "array"
   /\ BlockQueries # {}
   /\ BlockQueries \cap fetches = {}
   /\ completed[issued[Max(BlockQueries)].library] = Max(BlockQueries))
  => /\ applied.xblocks = Max(BlockQueries)
     /\ state.xblocks = CatalogBody(issued[Max(BlockQueries)])

\* ---- C2
\* C2: for each search field, a burst of text-change events each less than W
\* after the previous one dispatches at most one query (none while its timer
\* is still armed), and the query a debounced closure dispatches filters by
\* the text of the last event of the burst.
C2_AtMostOnePerBurst ==
  /\ Cardinality(Dispatched("debouncedFetchLibraries")) <= typed.libraryInput.bursts
  /\ Cardinality(Dispatched("debouncedFetchXblocks")) <= typed.xblockInput.bursts
  /\ Pending(debouncedFetchLibraries)
       => Cardinality(Dispatched("debouncedFetchLibraries")) < typed.libraryInput.bursts
  /\ Pending(debouncedFetchXblocks)
       => Cardinality(Dispatched("debouncedFetchXblocks")) < typed.xblockInput.bursts

C2_DispatchUsesLastText ==
  Len(issued') = Len(issued) + 1 =>
    LET req == issued'[Len(issued')] IN
      /\ req.origin = "debouncedFetchLibraries" => req.text_search = typed.libraryInput.last
      /\ req.origin = "debouncedFetchXblocks" => req.text_search = typed.xblockInput.last

C2_DebounceCollapsesBurst ==
  [](C2_AtMostOnePerBurst) /\ [][C2_DispatchUsesLastText]_vars

\* A burst of two events on the block search box was dispatched once, with the
\* second event's text, which is not the text of the event the closure captured.
C2_Witness ==
  /\ typed.xblockInput.run >= 2
  /\ typed.xblockInput.bursts = 1
  /\ ~Pending(debouncedFetchXblocks)
  /\ debouncedFetchXblocks.event.value # typed.xblockInput.last
  /\ \E i \in Dispatched("debouncedFetchXblocks") :
       issued[i].text_search = typed.xblockInput.last

\* ---- C3
\* C3: the membership of the selection set is the set obtained from the
\* initial ids by the adds and removes made so far, in order.
C3_SelectionIsExpectedSet ==
  Range(ArrayFrom(state.selectedXblocks)) = expected

\* An id was added that was not selected initially and an initial id was
\* removed.
C3_Witness ==
  /\ \E b \in expected : b \notin Range(props.selectedXblocks)
  /\ \E b \in Range(props.selectedXblocks) : b \notin expected
  /\ Range(ArrayFrom(state.selectedXblocks)) = expected

\* ---- C4
\* C4: the ordered snapshot of the selection set, as rendered and as sent on
\* save, holds no identifier twice.
C4_NoDuplicateIds ==
  /\ NoDuplicates(ArrayFrom(state.selectedXblocks))
  /\ \A i \in DOMAIN saveEvents : NoDuplicates(saveEvents[i].source_block_ids)

\* The initial list repeated an id and a further id has been checked since.
C4_Witness ==
  /\ ~NoDuplicates(props.selectedXblocks)
  /\ Len(ArrayFrom(state.selectedXblocks)) > Cardinality(Range(props.selectedXblocks))

\* ---- C5
\* C5: no block query is issued while selectedLibrary is undefined.
C5_NoBlockQueryBeforeLibrary ==
  \A i \in BlockQueries : issued[i].library # Undefined

\* ---- C6
\* C6: a library-selected event issues, in the handler itself, exactly one
\* unfiltered block query for the chosen library, and discards the blocks
\* displayed for the library selected before: from the selection on,
\* state.xblocks no longer holds that list.
C6_SelectionDiscardsBlocks ==
  [][\A library \in LibraryIds :
       OnLibrarySelected(library) =>
         /\ issued' = Append(issued, Call(BlocksRequest(library, "", "onLibrarySelected"),
                                          library))
         /\ (library # state.selectedLibrary /\ Rows(state.xblocks) # <<>>)
              => state'.xblocks # state.xblocks]_vars

\* ---- C7
\* C7: whenever `blocks` is non-empty it is the response of the most recently
\* completed successful block query for the selected library.
C7_BlocksOfSelectedLibrary ==
  Rows(state.xblocks) # <<>> =>
    /\ completed[state.selectedLibrary] # 0
    /\ applied.xblocks = completed[state.selectedLibrary]
    /\ state.xblocks = CatalogBody(issued[completed[state.selectedLibrary]])

\* ---- C8
\* C8: when a libraries or blocks query fails (network error, HTTP error
\* status, unparseable body) the picker state is left as it was and no query
\* is issued again.
C8_FailureKeepsState ==
  [][\A id \in fetches : \A response \in Responses(issued[id]) :
       (FetchSettles(id, response) /\ Failed(response)) =>
         (state' = state /\ issued' = issued)]_vars

\* ---- C9
\* C9: once the component is disposed no debounced callback fires and no
\* catalog query is issued.
C9_NoQueryAfterDisposal ==
  [][~mounted => issued' = issued]_vars

\* ---- C10
\* C10: a save click emits one save request whose source_block_ids has the
\* membership of the selection set at the click and whose save_url is
\* props.saveUrl, and the POST goes to that url with those ids.
C10_SaveSendsSelection ==
  [][OnSaveClick =>
       /\ Len(saveEvents') = Len(saveEvents) + 1
       /\ LET params == saveEvents'[Len(saveEvents')] IN
            /\ Range(params.source_block_ids) = expected
            /\ params.save_url = props.saveUrl
            /\ \E post \in posts' \ posts :
                 /\ posts' = posts \cup {post}
                 /\ post.url = props.saveUrl
                 /\ post.source_block_ids = params.source_block_ids]_vars

\* A save was clicked after an id that was not selected initially was checked.
C10_Witness ==
  /\ saveEvents # <<>>
  /\ \E b \in Range(saveEvents[1].source_block_ids) : b \notin Range(props.selectedXblocks)

\* ---- C11
\* C11: a save changes nothing of the selection set: not the click, not the
\* POST's success, not its failure; so a save clicked after a failed save,
\* with no id added or removed since, sends the ids the failed one sent.
\* (A save step: a POST is sent, or a POST settles.)
SaveStep == saveEvents' # saveEvents \/ posts' # posts

C11_SaveKeepsSelection ==
  [][/\ SaveStep => state'.selectedXblocks = state.selectedXblocks
     /\ (/\ saveEvents' # saveEvents
         /\ notifications # <<>>
         /\ notifications[Len(notifications)].type = "error"
         /\ Range(saveEvents[Len(saveEvents)].source_block_ids) = expected)
          => Range(saveEvents'[Len(saveEvents')].source_block_ids)
               = Range(saveEvents[Len(saveEvents)].source_block_ids)]_vars

\* A save failed and the save clicked next sent the same, non-empty, ids.
C11_Witness ==
  /\ Len(saveEvents) = 2
  /\ Len(notifications) = 3
  /\ notifications[2].type = "error"
  /\ saveEvents[1].source_block_ids # <<>>
  /\ saveEvents[2].source_block_ids = saveEvents[1].source_block_ids

\* ---- C12
\* C12: the message of a failed save is decided by the response body: no
\* body, the static text; {"error": s} with s a string, s; {"error":
\* {"messages": [...]}}, the messages' texts joined with ", "; a body that is
\* not JSON, its first 300 characters.
C12_FailMessageByBody ==
  [][(/\ posts' # posts
      /\ notifications' # notifications
      /\ notifications'[Len(notifications')].type = "error") =>
     \A post \in posts : \A responseText \in ResponseTexts :
       (post \notin posts' /\ PostFail(post, responseText)) =>
         LET message == notifications'[Len(notifications')].message IN
           /\ responseText.length = 0 => message = Value("string", <<StaticMessage>>)
           /\ responseText.text = "{\"error\":\"Unknown user\"}"
                => message = Value("string", <<Str("Unknown user", 12)>>)
           /\ responseText.text = "{\"error\":{\"messages\":[{\"text\":\"Unknown user 'bob'!\",\"type\":\"error\"},{\"text\":\"Try again\",\"type\":\"error\"}]}}"
                => message = Value("string", <<Str("Unknown user 'bob'!", 19), Str(", ", 2),
                                               Str("Try again", 9)>>)
           /\ responseText.text = "<html>Bad Gateway</html>"
                => message = Value("string", <<responseText>>)
           /\ responseText.text = "<html>a long error page ..."
                => message = Value("string", <<Str(responseText.text, 300)>>)]_vars

\* A save failed with a long body that is not JSON: the message is its first
\* 300 characters.
C12_Witness ==
  /\ notifications # <<>>
  /\ notifications[Len(notifications)].type = "error"
  /\ notifications[Len(notifications)].message
       = Value("string", <<Str("<html>a long error page ...", 300)>>)

\* ---- C13
\* Once the window of the last library text-change event has run out, the
\* last debounced libraries query is the one for the last text.
C13_OneQueryOnceElapsed ==
  (typed.libraryInput.bursts > 0 /\ ~Pending(debouncedFetchLibraries)) =>
    /\ Dispatched("debouncedFetchLibraries") # {}
    /\ Cardinality(Dispatched("debouncedFetchLibraries")) <= typed.libraryInput.bursts
    /\ LET last == issued[Max(Dispatched("debouncedFetchLibraries"))]
       IN /\ last.api = "libraries"
          /\ last.text_search = typed.libraryInput.last

\* The window runs out in one step, which dispatches one query for the last
\* text; no debounced libraries query is dispatched in any other step.
C13_DispatchAtExpiry ==
  /\ (Pending(debouncedFetchLibraries) /\ ~Pending(debouncedFetchLibraries'))
       => /\ debouncedFetchLibraries.remaining = 0
          /\ issued' = Append(issued, Call(LibrariesRequest(typed.libraryInput.last,
                                                            "debouncedFetchLibraries"), ""))
  /\ (/\ issued' # issued
      /\ issued'[Len(issued')].origin = "debouncedFetchLibraries")
       => Pending(debouncedFetchLibraries) /\ ~Pending(debouncedFetchLibraries')

\* A libraries query completing successfully (it becomes the last one that
\* did) makes `libraries` its result,
\* whichever other queries are in flight, and nothing else changes `libraries`.
C13_ResultReplacesLibraries ==
  /\ \A id \in fetches :
       (/\ id \notin fetches'
        /\ completed'.libraries = id
        /\ mounted)
         => state'.libraries = JsonArray(LibrariesMatching(issued[id].text_search))
  /\ state'.libraries # state.libraries
       => \E id \in fetches : id \notin fetches' /\ issued[id].api = "libraries"

\* C13: after the library search text becomes T and W elapses with no further
\* library text-change event, exactly one listLibraries(T) query has been
\* dispatched for the burst; when it completes successfully `libraries` is its
\* result, and stays so until another libraries query completes, also while
\* the query of the constructor is in flight.
C13_SearchReplacesLibraries ==
  /\ [](C13_OneQueryOnceElapsed)
  /\ [][C13_DispatchAtExpiry /\ C13_ResultReplacesLibraries]_vars

\* The search for "a" was dispatched once and applied while the query of the
\* constructor is still in flight.
C13_Witness ==
  /\ 1 \in fetches
  /\ typed.libraryInput.last = "a"
  /\ typed.libraryInput.bursts = 1
  /\ ~Pending(debouncedFetchLibraries)
  /\ applied.libraries \in Dispatched("debouncedFetchLibraries")
  /\ issued[applied.libraries].text_search = "a"
  /\ state.libraries = JsonArray(LibrariesMatching("a"))

\* ---- C14
\* The library selected when fetch number i was called: the library of the
\* last library-selected event before it (each such event issues one query).
SelectedBefore(i) ==
  LET selections == {s \in 1..(i - 1) : issued[s].origin = "onLibrarySelected"}
  IN IF selections = {} THEN Undefined ELSE issued[Max(selections)].library

\* The query a library-selected event issued last before fetch number i.
ImmediateBefore(i) ==
  Max({s \in 1..(i - 1) : issued[s].origin = "onLibrarySelected"})

\* Fetch number d is a debounced block search that was scheduled under one
\* library and dispatched after another one had been selected, and the
\* immediate query of that selection is the one `xblocks` shows now. (Below,
\* the search completes successfully in the step in which it becomes the last
\* query that did for its library.)
MidDebounceSelection(d) ==
  /\ issued[d].origin = "debouncedFetchXblocks"
  /\ issued[d].scheduled # Undefined
  /\ issued[d].scheduled # SelectedBefore(d)
  /\ applied.xblocks = ImmediateBefore(d)

\* C14: once the immediate query of a library selected mid-debounce has been
\* applied, the successful response to the debounced block search leaves
\* `xblocks` as it is.
C14_DebouncedNeverOverwrites ==
  [][\A d \in fetches :
       (/\ d \notin fetches'
        /\ completed'[Target(issued[d])] = d
        /\ mounted
        /\ MidDebounceSelection(d))
         => state'.xblocks = state.xblocks]_vars

\* C14, amended: the debounced block search is dispatched for the library
\* selected mid-debounce, and its successful response replaces `xblocks` by
\* that library's blocks matching the search text, also after the immediate
\* query of that selection has been applied.
C14_DebouncedReplacesBlocks ==
  [][\A d \in fetches :
       (/\ d \notin fetches'
        /\ completed'[Target(issued[d])] = d
        /\ mounted
        /\ MidDebounceSelection(d))
         => /\ issued[d].library = issued[ImmediateBefore(d)].library
            /\ state'.xblocks
                 = JsonArray(BlocksMatching(issued[ImmediateBefore(d)].library,
                                            issued[d].text_search))
            /\ applied'.xblocks = d]_vars

\* The response to a debounced block search scheduled under L1 and dispatched
\* under L2 has replaced the result of L2's immediate query.
C14_Witness ==
  /\ mounted
  /\ applied.xblocks \in Dispatched("debouncedFetchXblocks")
  /\ issued[applied.xblocks].scheduled = "L1"
  /\ issued[applied.xblocks].library = "L2"
  /\ ImmediateBefore(applied.xblocks) \notin fetches
  /\ completed.L2 = applied.xblocks
  /\ state.xblocks = JsonArray(BlocksMatching("L2", issued[applied.xblocks].text_search))
  /\ state.xblocks # CatalogBody(issued[ImmediateBefore(applied.xblocks)])

\* ---- C15
\* C15: the query of a debounced block search is for the library that was
\* selected when the text-change event scheduled it (stated for the searches
\* scheduled while a library was selected).
C15_TargetsLibraryAtSchedule ==
  \A i \in Dispatched("debouncedFetchXblocks") :
    issued[i].scheduled # Undefined => issued[i].library = issued[i].scheduled

\* C15, amended: the query of a debounced block search is for the library
\* selected when the debounce window expires, whichever library was selected
\* when the text-change event scheduled it.
C15_TargetsLibraryAtExpiry ==
  \A i \in Dispatched("debouncedFetchXblocks") : issued[i].library = SelectedBefore(i)

\* A debounced block search was scheduled under one library and dispatched
\* after another one had been selected.
C15_Witness ==
  \E i \in Dispatched("debouncedFetchXblocks") :
    /\ issued[i].scheduled # Undefined
    /\ issued[i].scheduled # issued[i].library
    /\ issued[i].library = SelectedBefore(i)

\* ---- C16
\* A step leaves a debounce timer alone, moves it on by the time that passed,
\* restarts it (an event of its own field, which sets it to W), or is its
\* expiry (which dispatches the query of its own field).
Dispatches(origin) == issued' # issued /\ issued'[Len(issued')].origin = origin

TimerStep(debounced, field, origin) ==
  \/ debounced' = debounced /\ ~Dispatches(origin)
  \/ /\ debounced # debounced'
     /\ debounced' = Elapse(debounced)
     /\ ~Dispatches(origin)
  \/ /\ inputs'[field] # inputs[field]
     /\ debounced'.remaining = W
     /\ ~Dispatches(origin)
  \/ /\ debounced.remaining = 0
     /\ debounced'.remaining = -1
     /\ Dispatches(origin)

\* C16: the two debounce timers are independent: a text-change event on one
\* field leaves the timer of the other field as it is and fires no query of
\* the other field, the expiry of one leaves the other as it is, and each
\* timer counts down W from its own last event.
C16_TimersIndependent ==
  [][/\ inputs'.libraryInput # inputs.libraryInput
          => /\ debouncedFetchXblocks' = debouncedFetchXblocks
             /\ issued' = issued
     /\ inputs'.xblockInput # inputs.xblockInput
          => /\ debouncedFetchLibraries' = debouncedFetchLibraries
             /\ issued' = issued
     /\ Dispatches("debouncedFetchLibraries")
          => debouncedFetchXblocks' = debouncedFetchXblocks
     /\ Dispatches("debouncedFetchXblocks")
          => debouncedFetchLibraries' = debouncedFetchLibraries
     /\ TimerStep(debouncedFetchLibraries, "libraryInput", "debouncedFetchLibraries")
     /\ TimerStep(debouncedFetchXblocks, "xblockInput", "debouncedFetchXblocks")]_vars

\* A library text-change event came while the block search was mid-debounce:
\* the block timer has less left than the library timer.
C16_Witness ==
  /\ Pending(debouncedFetchLibraries)
  /\ Pending(debouncedFetchXblocks)
  /\ 0 < debouncedFetchXblocks.remaining
  /\ debouncedFetchXblocks.remaining < debouncedFetchLibraries.remaining
  /\ debouncedFetchLibraries.remaining = W

\* ---- C17
\* The step is a library-selected event, a text-change event on either search
\* box, the expiry of a debounce window, or the arrival of a response.
CatalogStep ==
  \/ state'.selectedLibrary # state.selectedLibrary
  \/ inputs' # inputs
  \/ issued' # issued
  \/ fetches' # fetches
  \/ state'.libraries # state.libraries
  \/ state'.xblocks # state.xblocks

\* C17: library-selected events, search text changes and the responses to
\* libraries and blocks queries leave the selection set as it is.
C17_SelectionIndependentOfCatalogs ==
  [][CatalogStep => state'.selectedXblocks = state.selectedXblocks]_vars

\* A selected id is not among the blocks now displayed for the selected
\* library.
C17_Witness ==
  /\ mounted
  /\ applied.xblocks # 0
  /\ state.xblocks = CatalogBody(issued[applied.xblocks])
  /\ issued[applied.xblocks].library = state.selectedLibrary
  /\ \E id \in Range(state.selectedXblocks) : id \notin Range(Rows(state.xblocks))

\* ---- C18
\* C18: `libraries` is the response of the successful libraries query that
\* completed most recently, whatever the order the queries were issued in.
C18_LastCompletedWins ==
  (mounted /\ completed.libraries # 0)
    => state.libraries = CatalogBody(issued[completed.libraries])

\* ---- C19
\* C19: the notifications are, per save request, one 'save' start issued with
\* the POST, then, once the POST settles, one 'save' end or one 'error':
\* never both, never an end or error without a start before it.
IsStart(notification) == notification.type = "save" /\ notification.state = "start"

IsSettle(notification) ==
  \/ notification.type = "save" /\ notification.state = "end"
  \/ notification.type = "error"

Starts(k) == Cardinality({i \in 1..k : IsStart(notifications[i])})

Settles(k) == Cardinality({i \in 1..k : IsSettle(notifications[i])})

C19_StartThenEndOrError ==
  /\ \A i \in DOMAIN notifications : IsStart(notifications[i]) \/ IsSettle(notifications[i])
  /\ Starts(Len(notifications)) = Len(saveEvents)
  /\ Settles(Len(notifications)) + Cardinality(posts) = Len(saveEvents)
  /\ \A k \in DOMAIN notifications : Settles(k) <= Starts(k)

\* One save succeeded and one failed.
C19_Witness ==
  /\ posts = {}
  /\ \E i \in DOMAIN notifications : notifications[i].type = "error"
  /\ \E i \in DOMAIN notifications :
       notifications[i].type = "save" /\ notifications[i].state = "end"

\* ---- C20
\* C20: the message of every 'error' notification is a string that is not
\* empty, whatever the response body.
RECURSIVE StrLength(_)
StrLength(pieces) ==
  IF pieces = <<>> THEN 0 ELSE Head(pieces).length + StrLength(Tail(pieces))

C20_MessageIsNonEmptyString ==
  \A i \in DOMAIN notifications :
    notifications[i].type = "error" =>
      /\ notifications[i].message.type = "string"
      /\ StrLength(notifications[i].message.pieces) > 0

====
